---- MODULE Spec2Model ----
(***************************************************************************)
(* Match regeneration of cron-saffron: cron_regenerate.py (the current     *)
(* script) and cron_regenerate_matches.py (the older script with the same  *)
(* function names, suffixed _rm here).                                     *)
(*                                                                         *)
(* Representation of Python values:                                        *)
(*   strings used as keys  : sequences of one-character strings            *)
(*   None as a key / an id : NoneId                                        *)
(*   None as price / house : "None"                                        *)
(*   None as a score       : NoneScore (scores are >= 0)                   *)
(*   iso_date values       : records [kind, day, tod], kind one of         *)
(*        "none" (None or field missing), "dt" (datetime object),          *)
(*        "str"  (an ISO-8601 string), "bad" (a string no parser accepts)  *)
(*   a dict                : a function; `k in d` is k \in DOMAIN d        *)
(***************************************************************************)
EXTENDS Integers, Sequences, FiniteSets, TLC

VARIABLES
    pm_pc,       \* "input" before process_matches is applied, "done" after,
                 \* "again" after a second execution on the same input
    pm_impl,     \* which script's process_matches produced pm_out
    pm_subject,  \* index in Catalog of the subject document
    pm_ids,      \* the neighbour ids the index returned, in rank order
    pm_out,      \* the document process_matches returned
    pc,          \* where regenerate_matches stands
    store,       \* the collection: a sequence of documents
    documents,   \* the list fetch_documents returned
    hashmaps,    \* the three lookup maps
    idx,         \* enumerate(documents, 1): the next document of the loop
    matches,     \* the neighbour list of the document being processed
    updated_docs, \* the list handed to the writer
    operations,  \* the UpdateOne operations the writer built
    report,      \* what the writer logged about the write
    applied,     \* _ids whose update the store applied
    rejected,    \* _ids whose update the store rejected
    emptied,     \* _ids whose neighbour query gave no matches (history)
    store0,      \* the collection as the run found it (history)
    events,      \* the stages cron_regenerate.py's run went through, in order
    qp,          \* a call of query_pinecone on its own: its arguments and result
    hist         \* what earlier steps met: which run this is, the answer the
                 \* index gave for each _id, the outcome of the first run's
                 \* write, the collection the first run left

pm_vars == <<pm_pc, pm_impl, pm_subject, pm_ids, pm_out>>
run_vars == <<pc, store, documents, hashmaps, idx, matches, updated_docs,
              operations, report, applied, rejected, emptied, store0, hist, qp, events>>
vars == <<pm_vars, run_vars>>

\* ------------------------------------------------------------------ bounds
\* neighbour lists of arbitrary ids (pure-function specification)
MaxShort == 1
\* neighbour lists over two ids (pure-function specification)
MaxLong == 7
\* neighbour lists the index answers with in a run
MaxRunMatches == 2
\* neighbour lists made of a block of one id, a block of another, and a tail
MaxBlock == 5
MaxTail == 2

\* ------------------------------------------------------- program constants
\* range(1, 6): five slots per category
NSlots == 5

Categories == <<"overall", "same_day", "before">>
Fields == <<"id", "price", "score">>
Slots == 1..NSlots

\* the 45 field names {category}_match_{i}_{field}
update_fields == {<<Categories[c], i, Fields[f]>> : c \in 1..3, i \in Slots, f \in 1..3}

NoneId == <<"None">>
NoneScore == -1
NoneDate == [kind |-> "none", day |-> 0, tod |-> 0]

NoneOf(fld) == IF fld = "id" THEN NoneId ELSE IF fld = "price" THEN "None" ELSE NoneScore

\* ------------------------------------------------------------ str methods
\* s.replace('\\', '/')
Replace(s) == [i \in DOMAIN s |-> IF s[i] = "\\" THEN "/" ELSE s[i]]

RECURSIVE LStrip(_)
LStrip(s) == IF s # <<>> /\ Head(s) = " " THEN LStrip(Tail(s)) ELSE s

RECURSIVE RStrip(_)
RStrip(s) == IF s # <<>> /\ s[Len(s)] = " " THEN RStrip(SubSeq(s, 1, Len(s) - 1)) ELSE s

\* s.strip()
Strip(s) == RStrip(LStrip(s))

\* `not s` for a key that is a string or None
Falsy(s) == s = <<>> \/ s = NoneId

\* ------------------------------------------------------------------ dates
Datetime(d, t) == [kind |-> "dt", day |-> d, tod |-> t]
DateStr(d, t) == [kind |-> "str", day |-> d, tod |-> t]
BadStr == [kind |-> "bad", day |-> 0, tod |-> 0]

\* datetime.isoformat(): only a datetime has the method (AttributeError otherwise)
isoformat(x) ==
    IF x.kind = "dt" THEN [ok |-> TRUE, val |-> DateStr(x.day, x.tod)]
    ELSE [ok |-> FALSE, val |-> NoneDate]

\* mutant of parse: a string without a time of day is read as lacking the day,
\* which dateutil fills in from the current date, and the second execution
\* runs a day later
parse_today(x) ==
    IF x.kind = "str"
    THEN [ok |-> TRUE, val |-> Datetime(x.day + (IF pm_pc = "done" /\ x.tod = 0 THEN 1 ELSE 0), x.tod)]
    ELSE [ok |-> FALSE, val |-> NoneDate]

\* dateutil.parser.parse(x): a well-formed string gives a datetime; a malformed
\* string raises ParserError; None or a datetime raises TypeError
parse(x) ==
    IF x.kind = "str" THEN [ok |-> TRUE, val |-> Datetime(x.day, x.tod)]
    ELSE [ok |-> FALSE, val |-> NoneDate]

\* datetime < datetime
DtLess(a, b) == a.day < b.day \/ (a.day = b.day /\ a.tod < b.tod)

\* round(score * 100, 2): raw scores are in units of 1e-5, results in units of 1e-2
Round2(raw) ==
    LET q == raw \div 10
        r == raw % 10
    IN  IF r > 5 \/ (r = 5 /\ q % 2 = 1) THEN q + 1 ELSE q

\* dict.get(k), with the given value for None
Get(map, k, none) == IF k \in DOMAIN map THEN map[k] ELSE none

\* ------------------------------------------------------- stored documents
\* A record of the collection: _id, none_@file, winning_bid, iso_date,
\* auction_house, and m, the match fields it holds (a function on a subset of
\* update_fields).
Doc(id, file, bid, date, house, m) ==
    [_id |-> id, file |-> file, winning_bid |-> bid, iso_date |-> date,
     auction_house |-> house, m |-> m]

\* match fields left by an earlier run: five overall matches, nothing else
StaleM ==
    [f \in update_fields |->
        IF f[1] = "overall"
        THEN (IF f[3] = "id" THEN <<"o", "l", "d">> ELSE IF f[3] = "price" THEN "p0" ELSE 4200 + f[2])
        ELSE NoneOf(f[3])]

NoM == <<>>

\* The collection the scripts run against.
Catalog ==
    << Doc(1,  <<"s">>,            "p1",   Datetime(2, 1), "A",    StaleM),
       Doc(2,  <<"a">>,            "p2",   Datetime(2, 1), "A",    NoM),
       Doc(3,  <<"b">>,            "p3",   Datetime(2, 0), "A",    NoM),
       Doc(4,  <<"c">>,            "None", Datetime(2, 0), "B",    NoM),
       Doc(5,  <<"d">>,            "p5",   Datetime(1, 1), "B",    StaleM),
       Doc(6,  <<"e">>,            "p6",   Datetime(3, 0), "A",    NoM),
       Doc(7,  <<"f">>,            "p7",   NoneDate,       "A",    NoM),
       Doc(8,  <<"g">>,            "p8",   DateStr(2, 1),  "A",    NoM),
       Doc(9,  <<"h">>,            "p9",   BadStr,         "None", NoM),
       Doc(10, <<"k", "\\", "1">>, "p10",  Datetime(1, 0), "None", NoM),
       Doc(11, <<"n">>,            "p11",  Datetime(2, 1), "None", NoM),
       Doc(12, <<"t">>,            "p12",  DateStr(2, 1),  "A",    NoM),
       Doc(13, <<"u">>,            "p13",  DateStr(1, 0),  "B",    NoM),
       Doc(14, <<>>,               "p14",  Datetime(2, 1), "A",    StaleM),
       Doc(15, <<"v">>,            "p15",  DateStr(2, 0),  "A",    NoM),
       Doc(16, <<"w">>,            "p16",  Datetime(2, 0), "None", NoM) >>

\* an id the index knows and the collection does not
UnknownId == <<"z">>

\* ---------------------------------------------------------- build_hashmaps
NoMaps == [bid |-> <<>>, date |-> <<>>, house |-> <<>>]

\* dict[k] = v
Put(map, k, v) == (k :> v) @@ map

\* `if iso_date`: None and '' are falsy
Truthy(x) == x.kind # "none"

\* one iteration of the loop of build_hashmaps (cron_regenerate.py)
build_hashmaps_doc(maps, doc) ==
    IF Falsy(doc.file) THEN maps
    ELSE LET image_id == Strip(Replace(doc.file))
             withBid  == [maps EXCEPT !.bid = Put(@, image_id, doc.winning_bid)]
             iso      == IF Truthy(doc.iso_date) THEN isoformat(doc.iso_date)
                         ELSE [ok |-> TRUE, val |-> NoneDate]
         IN  IF ~iso.ok THEN withBid
             ELSE [withBid EXCEPT !.date = Put(@, image_id, iso.val),
                                  !.house = Put(@, image_id, doc.auction_house)]

RECURSIVE build_hashmaps_from(_, _, _)
build_hashmaps_from(dlist, i, maps) ==
    IF i > Len(dlist) THEN maps
    ELSE build_hashmaps_from(dlist, i + 1, build_hashmaps_doc(maps, dlist[i]))

build_hashmaps(dlist) == build_hashmaps_from(dlist, 1, NoMaps)

\* one iteration of the loop of build_hashmaps (cron_regenerate_matches.py)
build_hashmaps_doc_rm(maps, doc) ==
    IF Falsy(doc.file) THEN maps
    ELSE [bid   |-> Put(maps.bid, doc.file, doc.winning_bid),
          date  |-> Put(maps.date, doc.file, doc.iso_date),
          house |-> Put(maps.house, doc.file, doc.auction_house)]

RECURSIVE build_hashmaps_from_rm(_, _, _)
build_hashmaps_from_rm(dlist, i, maps) ==
    IF i > Len(dlist) THEN maps
    ELSE build_hashmaps_from_rm(dlist, i + 1, build_hashmaps_doc_rm(maps, dlist[i]))

build_hashmaps_rm(dlist) == build_hashmaps_from_rm(dlist, 1, NoMaps)

\* -------------------------------------------------------- fetch_documents
\* find(query, projection): the projection keeps _id and the four named fields
Project(doc) == [doc EXCEPT !.m = NoM]

\* {"none_@file": {"$exists": True, "$ne": None}}
fetch_documents(stored) ==
    LET keep == SelectSeq(stored, LAMBDA d : d.file # NoneId)
    IN  [i \in DOMAIN keep |-> Project(keep[i])]

\* {"none_@file": {"$exists": True}}, whole documents
fetch_documents_rm(stored) == stored


\* ---------------------------------------------------------- query results
\* raw similarity of the neighbour at rank r (units of 1e-5), descending
RawScore(r) == 98765 - 1115 * (r - 1)

\* the 'matches' list of an index answer naming these ids in rank order
MkMatches(ids) == [r \in DOMAIN ids |-> [id |-> ids[r], score |-> RawScore(r)]]

\* ---------------------------------------------------------- query_pinecone
\* what index.query does: it answers with a 'matches' list, or raises
IndexAnswer(ids) == [ok |-> TRUE, matches |-> MkMatches(ids)]
IndexError == [ok |-> FALSE, matches |-> <<>>]

\* query_pinecone of cron_regenerate.py
query_pinecone(image_id, answer) ==
    IF Falsy(image_id) THEN <<>>
    ELSE IF answer.ok THEN answer.matches
    ELSE <<>>

\* --------------------------------------------------------- process_matches
NoCategories == [overall |-> <<>>, same_day |-> <<>>, before |-> <<>>]

\* `if len(categories[c]) < 5: categories[c].append(match_data)`
AppendIfRoom(list, match_data) ==
    IF Len(list) < NSlots THEN Append(list, match_data) ELSE list

\* mutant of AllFull: the scan stops once overall holds 5
AllFull_overall(cats) == Len(cats.overall) >= NSlots

\* the loop's break test: all three categories hold 5
AllFull(cats) ==
    Len(cats.overall) >= NSlots /\ Len(cats.same_day) >= NSlots /\ Len(cats.before) >= NSlots

\* the doc with every one of the 45 fields set to None
ClearFields(doc) == [doc EXCEPT !.m = [f \in update_fields |-> NoneOf(f[3])]]

\* mutant of SlotValue: enumerate(..., start=2), slot 1 is never written
SlotValue_gap(cats, f) ==
    LET list == cats[f[1]]
    IN  IF f[2] >= 2 /\ f[2] - 1 <= Len(list) THEN list[f[2] - 1][f[3]] ELSE NoneOf(f[3])

\* mutant of SlotValue: the price written is always that of the category's
\* first entry
SlotValue_first(cats, f) ==
    LET list == cats[f[1]]
    IN  IF f[2] <= Len(list)
        THEN (IF f[3] = "price" THEN list[1].price ELSE list[f[2]][f[3]])
        ELSE NoneOf(f[3])

\* the value of field f once the categories are written into the doc
SlotValue(cats, f) ==
    LET list == cats[f[1]]
    IN  IF f[2] <= Len(list) THEN list[f[2]][f[3]] ELSE NoneOf(f[3])

\* mutant of IsSameDay: the auction houses are not compared
IsSameDay_anyhouse(input_date, match_date, input_auction_house, match_auction_house) ==
    /\ Truthy(input_date) /\ Truthy(match_date)
    /\ match_date.day = input_date.day

\* `if input_date and match_date` ... same_day test (cron_regenerate.py)
IsSameDay(input_date, match_date, input_auction_house, match_auction_house) ==
    /\ Truthy(input_date) /\ Truthy(match_date)
    /\ match_date.day = input_date.day
    /\ input_auction_house = match_auction_house

\* mutant of IsBefore: `if match_date < input_date`, tested on its own
IsBefore_indep(input_date, match_date, input_auction_house, match_auction_house) ==
    /\ Truthy(input_date) /\ Truthy(match_date)
    /\ DtLess(match_date, input_date)

\* mutant of IsBefore: `if match_date.date() <= input_date.date()`, tested on
\* its own
IsBefore_uptoday(input_date, match_date, input_auction_house, match_auction_house) ==
    /\ Truthy(input_date) /\ Truthy(match_date)
    /\ match_date.day <= input_date.day

\* `elif match_date < input_date` (cron_regenerate.py)
IsBefore(input_date, match_date, input_auction_house, match_auction_house) ==
    /\ Truthy(input_date) /\ Truthy(match_date)
    /\ ~IsSameDay(input_date, match_date, input_auction_house, match_auction_house)
    /\ DtLess(match_date, input_date)

\* `dateutil.parser.parse(s) if s else None` inside try
ParseIfSet(date_str) ==
    IF Truthy(date_str) THEN parse(date_str) ELSE [ok |-> TRUE, val |-> NoneDate]

\* the body of the loop over matches for one match (cron_regenerate.py)
Categorize(cats, match, input_date, input_auction_house, maps) ==
    LET match_id    == Replace(match.id)
        match_score == Round2(match.score)
        match_price == Get(maps.bid, match_id, "None")
        match_date_str == Get(maps.date, match_id, NoneDate)
        match_auction_house == Get(maps.house, match_id, "None")
        parsed      == ParseIfSet(match_date_str)
        match_data  == [id |-> match_id, price |-> match_price, score |-> match_score]
    IN  IF ~parsed.ok THEN cats
        ELSE [overall  |-> AppendIfRoom(cats.overall, match_data),
              same_day |-> IF IsSameDay(input_date, parsed.val, input_auction_house, match_auction_house)
                           THEN AppendIfRoom(cats.same_day, match_data) ELSE cats.same_day,
              before   |-> IF IsBefore(input_date, parsed.val, input_auction_house, match_auction_house)
                           THEN AppendIfRoom(cats.before, match_data) ELSE cats.before]

RECURSIVE ScanMatches(_, _, _, _, _, _)
ScanMatches(mlist, i, cats, input_date, input_auction_house, maps) ==
    IF i > Len(mlist) \/ AllFull(cats) THEN cats
    ELSE ScanMatches(mlist, i + 1,
                     Categorize(cats, mlist[i], input_date, input_auction_house, maps),
                     input_date, input_auction_house, maps)

\* process_matches of cron_regenerate.py
process_matches(doc, mlist, maps) ==
    IF Falsy(doc.file) THEN ClearFields(doc)
    ELSE LET image_id == Strip(Replace(doc.file))
             input_date_str == Get(maps.date, image_id, NoneDate)
             input_auction_house == Get(maps.house, image_id, "None")
             parsed == ParseIfSet(input_date_str)
             input_date == IF parsed.ok THEN parsed.val ELSE NoneDate
             cats == ScanMatches(mlist, 1, NoCategories, input_date, input_auction_house, maps)
         IN  [doc EXCEPT !.m = [f \in update_fields |-> SlotValue(cats, f)]]

\* `input_date and match_date == input_date and houses equal`
\* (cron_regenerate_matches.py; match_date is a parsed datetime here)
IsSameDay_rm(input_date, match_date, input_auction_house, match_auction_house) ==
    /\ Truthy(input_date)
    /\ match_date = input_date
    /\ input_auction_house = match_auction_house

\* `elif input_date and match_date < input_date`
IsBefore_rm(input_date, match_date, input_auction_house, match_auction_house) ==
    /\ ~IsSameDay_rm(input_date, match_date, input_auction_house, match_auction_house)
    /\ Truthy(input_date)
    /\ DtLess(match_date, input_date)

\* the body of the loop over matches for one match (cron_regenerate_matches.py)
Categorize_rm(cats, match, input_date, input_auction_house, maps) ==
    LET match_id    == Replace(match.id)
        match_score == Round2(match.score)
        match_price == Get(maps.bid, match_id, "None")
        match_date_str == Get(maps.date, match_id, NoneDate)
        match_auction_house == Get(maps.house, match_id, "None")
        parsed      == parse(match_date_str)
        match_data  == [id |-> match_id, price |-> match_price, score |-> match_score]
    IN  IF ~parsed.ok THEN cats
        ELSE [overall  |-> AppendIfRoom(cats.overall, match_data),
              same_day |-> IF IsSameDay_rm(input_date, parsed.val, input_auction_house, match_auction_house)
                           THEN AppendIfRoom(cats.same_day, match_data) ELSE cats.same_day,
              before   |-> IF IsBefore_rm(input_date, parsed.val, input_auction_house, match_auction_house)
                           THEN AppendIfRoom(cats.before, match_data) ELSE cats.before]

\* the break test sits at the end of the loop body: it is reached only by an
\* iteration that did not `continue`
RECURSIVE ScanMatches_rm(_, _, _, _, _, _)
ScanMatches_rm(mlist, i, cats, input_date, input_auction_house, maps) ==
    IF i > Len(mlist) THEN cats
    ELSE LET skipped == ~parse(Get(maps.date, Replace(mlist[i].id), NoneDate)).ok
             next == Categorize_rm(cats, mlist[i], input_date, input_auction_house, maps)
         IN  IF ~skipped /\ AllFull(next) THEN next
             ELSE ScanMatches_rm(mlist, i + 1, next, input_date, input_auction_house, maps)

\* process_matches of cron_regenerate_matches.py
process_matches_rm(doc, mlist, maps) ==
    LET image_id == doc.file
        input_date_str == Get(maps.date, image_id, NoneDate)
        input_auction_house == Get(maps.house, image_id, "None")
        parsed == parse(input_date_str)
        input_date == IF parsed.ok THEN parsed.val ELSE NoneDate
        cats == ScanMatches_rm(mlist, 1, NoCategories, input_date, input_auction_house, maps)
    IN  [doc EXCEPT !.m = [f \in update_fields |-> SlotValue(cats, f)]]


\* ------------------------------------- process_matches as a pure function
SeqsUpTo(S, n) == UNION {[1..k -> S] : k \in 0..n}

\* ids under which the index holds vectors: the keys uploaded, and one more
AllIds == {Catalog[i].file : i \in {j \in DOMAIN Catalog : ~Falsy(Catalog[j].file)}} \cup {UnknownId}

\* long neighbour lists: subject and the two ids the list is made of
LongCases ==
    { [subject |-> 1, ids |-> {<<"a">>, <<"d">>}],
      [subject |-> 1, ids |-> {<<"a">>, <<"c">>}],
      [subject |-> 1, ids |-> {<<"b">>, <<"e">>}],
      [subject |-> 1, ids |-> {<<"s">>, <<"a">>}],
      [subject |-> 6, ids |-> {<<"b">>, <<"f">>}],
      [subject |-> 8, ids |-> {<<"t">>, <<"u">>}],
      [subject |-> 8, ids |-> {<<"t">>, <<"v">>}] }

\* block lists: subject, the id of the first block, of the second, and the ids
\* of the tail
BlockCases ==
    { [subject |-> 1, first |-> <<"a">>, second |-> <<"d">>, ids |-> {<<"a">>, <<"d">>, <<"e">>}],
      [subject |-> 8, first |-> <<"u">>, second |-> <<"t">>, ids |-> {<<"t">>, <<"u">>, <<"v">>}] }

\* n times the id
Rep(id, n) == [i \in 1..n |-> id]

PMInputs ==
    { [subject |-> i, ids |-> l] : i \in DOMAIN Catalog, l \in SeqsUpTo(AllIds, MaxShort) }
    \cup UNION { { [subject |-> c.subject, ids |-> l] : l \in SeqsUpTo(c.ids, MaxLong) } : c \in LongCases }
    \cup UNION { { [subject |-> c.subject, ids |-> Rep(c.first, i) \o Rep(c.second, j) \o t] :
                      i \in 0..MaxBlock, j \in 0..MaxBlock, t \in SeqsUpTo(c.ids, MaxTail) } :
                  c \in BlockCases }

CatalogFetched == fetch_documents(Catalog)
CatalogFetched_rm == fetch_documents_rm(Catalog)
CatalogMaps == build_hashmaps(CatalogFetched)
CatalogMaps_rm == build_hashmaps_rm(CatalogFetched_rm)

\* the fetched document with the same _id as Catalog[i]
FetchedDoc(fetched, i) == fetched[CHOOSE k \in DOMAIN fetched : fetched[k]._id = Catalog[i]._id]

\* a stage of the run: "build", "query", "categorize" or "write", and the _id
\* of the document it is about (0 for the run as a whole)
Event(stage, id) == [stage |-> stage, id |-> id]

\* no call of query_pinecone on its own
NoCall == [pc |-> "off", impl |-> "none", image_id |-> <<>>, answer |-> <<>>, out |-> <<>>]

NoHist == [run |-> 1, answers |-> <<>>, write |-> [outcome |-> "none", bad |-> {}], store1 |-> <<>>]

\* the run variables of a specification that runs no script
RunOff ==
    /\ pc = "off" /\ store = <<>> /\ documents = <<>> /\ hashmaps = NoMaps
    /\ idx = 0 /\ matches = <<>> /\ updated_docs = <<>> /\ operations = <<>>
    /\ report = [kind |-> "none", matched |-> 0, modified |-> 0, errors |-> {}] /\ applied = {} /\ rejected = {} /\ emptied = {}
    /\ store0 = <<>>
    /\ hist = NoHist
    /\ events = <<>>

RunIdle == RunOff /\ qp = NoCall

PMInit ==
    /\ RunIdle
    /\ pm_pc = "input"
    /\ pm_impl = "none"
    /\ \E inp \in PMInputs : pm_subject = inp.subject /\ pm_ids = inp.ids
    /\ pm_out = Catalog[pm_subject]

\* cron_regenerate.py: process_matches(doc, matches, *hashmaps)
PMApply ==
    /\ pm_pc = "input"
    /\ pm_pc' = "done"
    /\ pm_impl' = "regenerate"
    /\ LET doc == FetchedDoc(CatalogFetched, pm_subject)
       IN  pm_out' = process_matches(doc, query_pinecone(doc.file, IndexAnswer(pm_ids)), CatalogMaps)
    /\ UNCHANGED <<pm_subject, pm_ids, run_vars>>

\* cron_regenerate_matches.py: process_matches(doc, matches, ...)
PMApply_rm ==
    /\ pm_pc = "input"
    /\ pm_pc' = "done"
    /\ pm_impl' = "regenerate_matches"
    /\ pm_out' = process_matches_rm(FetchedDoc(CatalogFetched_rm, pm_subject), MkMatches(pm_ids), CatalogMaps_rm)
    /\ UNCHANGED <<pm_subject, pm_ids, run_vars>>

\* a second execution of cron_regenerate.py's process_matches for the same
\* subject, neighbour list and maps: on the dict the first one returned, or on
\* the document as fetched
PMReapply ==
    /\ pm_pc = "done" /\ pm_impl = "regenerate"
    /\ pm_pc' = "again"
    /\ \E doc \in {pm_out, FetchedDoc(CatalogFetched, pm_subject)} :
          pm_out' = process_matches(doc, query_pinecone(doc.file, IndexAnswer(pm_ids)), CatalogMaps)
    /\ UNCHANGED <<pm_impl, pm_subject, pm_ids, run_vars>>

\* the same for cron_regenerate_matches.py
PMReapply_rm ==
    /\ pm_pc = "done" /\ pm_impl = "regenerate_matches"
    /\ pm_pc' = "again"
    /\ \E doc \in {pm_out, FetchedDoc(CatalogFetched_rm, pm_subject)} :
          pm_out' = process_matches_rm(doc, MkMatches(pm_ids), CatalogMaps_rm)
    /\ UNCHANGED <<pm_impl, pm_subject, pm_ids, run_vars>>

PMNext == PMApply \/ PMApply_rm \/ PMReapply \/ PMReapply_rm

SpecPM == PMInit /\ [][PMNext]_vars


\* ================================================= properties, SpecPM
Subject == Catalog[pm_subject]
OutId(c, i) == pm_out.m[<<c, i, "id">>]
Populated(c, i) == OutId(c, i) # NoneId
\* the ids a category of the result holds, in slot order
OutIds(c) == SelectSeq([i \in Slots |-> OutId(c, i)], LAMBDA x : x # NoneId)
SeqRange(q) == {q[i] : i \in DOMAIN q}
Prefix(q, n) == SubSeq(q, 1, IF Len(q) < n THEN Len(q) ELSE n)

\* what the collection says about the neighbour at rank r
HasDoc(r) == \E j \in DOMAIN Catalog : Catalog[j].file = pm_ids[r]
NeighbourDoc(r) == Catalog[CHOOSE j \in DOMAIN Catalog : Catalog[j].file = pm_ids[r]]
HasSaleDate(d) == d.iso_date.kind \in {"dt", "str"}
\* the neighbours as the result names them
NeighbourIds == [r \in DOMAIN pm_ids |-> Replace(pm_ids[r])]

\* same calendar day and same auction house as the subject
SameDayAsSubject(r) ==
    /\ HasDoc(r) /\ HasSaleDate(NeighbourDoc(r)) /\ HasSaleDate(Subject)
    /\ NeighbourDoc(r).iso_date.day = Subject.iso_date.day
    /\ NeighbourDoc(r).auction_house = Subject.auction_house

\* calendar day strictly before the subject's
BeforeSubject(r) ==
    /\ HasDoc(r) /\ HasSaleDate(NeighbourDoc(r)) /\ HasSaleDate(Subject)
    /\ NeighbourDoc(r).iso_date.day < Subject.iso_date.day

SameCalendarDay(r) ==
    /\ HasDoc(r) /\ HasSaleDate(NeighbourDoc(r)) /\ HasSaleDate(Subject)
    /\ NeighbourDoc(r).iso_date.day = Subject.iso_date.day

\* the neighbours of rank order that satisfy P
RECURSIVE Satisfying(_, _)
Satisfying(P(_), r) ==
    IF r > Len(pm_ids) THEN <<>>
    ELSE (IF P(r) THEN <<NeighbourIds[r]>> ELSE <<>>) \o Satisfying(P, r + 1)

\* C1: the result holds exactly the 45 fields, every category has at most 5
\* populated slots, and a populated slot i > 1 has slot i-1 populated.
C1_SlotsContiguous ==
    pm_pc = "done" =>
        /\ DOMAIN pm_out.m = update_fields
        /\ \A c \in SeqRange(Categories) :
              /\ Cardinality({i \in Slots : Populated(c, i)}) <= NSlots
              /\ \A i \in Slots \ {1} : Populated(c, i) => Populated(c, i - 1)

\* C1 witness: a result with a full category and a partly filled one
C1_Witness ==
    /\ pm_pc = "done"
    /\ Len(pm_ids) > NSlots
    /\ Populated("overall", NSlots)
    /\ Populated("before", 2) /\ ~Populated("before", 3)

\* C3: no slot of the result holds the subject's own id.
C3_NoSelfMatch ==
    (pm_pc = "done" /\ ~Falsy(Subject.file)) =>
        \A c \in SeqRange(Categories), i \in Slots :
            OutId(c, i) \notin {Subject.file, Replace(Subject.file)}

\* C4: every same_day entry is a neighbour with the subject's calendar day and
\* the subject's auction house.
C4_SameDayNeedsDayAndHouse ==
    pm_pc = "done" =>
        \A i \in Slots : Populated("same_day", i) =>
            \E r \in DOMAIN pm_ids : NeighbourIds[r] = OutId("same_day", i) /\ SameDayAsSubject(r)

\* C4 witness: a neighbour of the subject's day and another house stays out of
\* same_day while one of the subject's day and house is in it
C4_Witness ==
    /\ pm_pc = "done"
    /\ Populated("same_day", 1)
    /\ \E r \in DOMAIN pm_ids :
          /\ SameCalendarDay(r) /\ ~SameDayAsSubject(r)
          /\ NeighbourIds[r] \notin SeqRange(OutIds("same_day"))

\* C5: a neighbour of a strictly earlier calendar day is in before (or before
\* is full), and a neighbour of the subject's calendar day is never in before.
C5_BeforeByCalendarDay ==
    pm_pc = "done" =>
        \A r \in DOMAIN pm_ids :
            /\ BeforeSubject(r) =>
                  (NeighbourIds[r] \in SeqRange(OutIds("before")) \/ Populated("before", NSlots))
            /\ SameCalendarDay(r) => NeighbourIds[r] \notin SeqRange(OutIds("before"))

\* C6: overall is the first min(5, n) neighbours in rank order.
C6_OverallIsPrefix ==
    pm_pc = "done" => OutIds("overall") = Prefix(NeighbourIds, NSlots)

\* C7: same_day and before are the first min(5, m) neighbours, in rank order,
\* that satisfy the category's predicate.
C7_FirstFiveSatisfying ==
    pm_pc = "done" =>
        /\ OutIds("same_day") = Prefix(Satisfying(SameDayAsSubject, 1), NSlots)
        /\ OutIds("before") = Prefix(Satisfying(BeforeSubject, 1), NSlots)

RECURSIVE ScanWhole(_, _, _, _, _, _)
ScanWhole(mlist, i, cats, input_date, input_auction_house, maps) ==
    IF i > Len(mlist) THEN cats
    ELSE ScanWhole(mlist, i + 1,
                   Categorize(cats, mlist[i], input_date, input_auction_house, maps),
                   input_date, input_auction_house, maps)

\* the same for cron_regenerate_matches.py
RECURSIVE ScanWhole_rm(_, _, _, _, _, _)
ScanWhole_rm(mlist, i, cats, input_date, input_auction_house, maps) ==
    IF i > Len(mlist) THEN cats
    ELSE ScanWhole_rm(mlist, i + 1,
                      Categorize_rm(cats, mlist[i], input_date, input_auction_house, maps),
                      input_date, input_auction_house, maps)

\* the categories a scan without the early exit ends with, for the input of
\* the state and the script that produced pm_out
WholeScanCategories ==
    IF pm_impl = "regenerate"
    THEN LET image_id == Strip(Replace(Subject.file))
             parsed == ParseIfSet(Get(CatalogMaps.date, image_id, NoneDate))
         IN  ScanWhole(MkMatches(pm_ids), 1, NoCategories,
                       IF parsed.ok THEN parsed.val ELSE NoneDate,
                       Get(CatalogMaps.house, image_id, "None"), CatalogMaps)
    ELSE LET parsed == parse(Get(CatalogMaps_rm.date, Subject.file, NoneDate))
         IN  ScanWhole_rm(MkMatches(pm_ids), 1, NoCategories,
                          IF parsed.ok THEN parsed.val ELSE NoneDate,
                          Get(CatalogMaps_rm.house, Subject.file, "None"), CatalogMaps_rm)

\* C18: the result of process_matches, which stops scanning once the three
\* categories hold 5 each, is the result of scanning the whole neighbour list.
C18_EarlyExitPreservesResult ==
    (pm_pc = "done" /\ ~Falsy(Subject.file)) =>
        LET cats == WholeScanCategories
        IN  /\ \A c \in SeqRange(Categories) : Len(cats[c]) <= NSlots
            /\ pm_out.m = [f \in update_fields |-> SlotValue(cats, f)]

\* C18 witness: the three categories are full and neighbours are left over,
\* one of them a neighbour that would qualify for same_day
C18_Witness ==
    /\ pm_pc = "done"
    /\ \A c \in SeqRange(Categories) : Populated(c, NSlots)
    /\ Len(pm_ids) > 2 * NSlots
    /\ pm_ids[Len(pm_ids)] = OutId("same_day", 1)


\* the date cron_regenerate.py's process_matches works with for an id
MapDateOf(id) ==
    LET parsed == ParseIfSet(Get(CatalogMaps.date, id, NoneDate))
    IN  IF parsed.ok THEN parsed.val ELSE NoneDate

\* the before test of cron_regenerate.py taken on its own: match_date < input_date
MeetsBefore(r) ==
    LET input_date == MapDateOf(Strip(Replace(Subject.file)))
        match_date == MapDateOf(NeighbourIds[r])
    IN  Truthy(input_date) /\ Truthy(match_date) /\ DtLess(match_date, input_date)

\* the same_day test of cron_regenerate.py
MeetsSameDay(r) ==
    LET image_id == Strip(Replace(Subject.file))
    IN  IsSameDay(MapDateOf(image_id), MapDateOf(NeighbourIds[r]),
                  Get(CatalogMaps.house, image_id, "None"),
                  Get(CatalogMaps.house, NeighbourIds[r], "None"))

\* before as the before test evaluated independently of same_day would fill it
IndependentBefore == Prefix(Satisfying(MeetsBefore, 1), NSlots)

\* C19: in cron_regenerate.py a neighbour that meets the same_day test and the
\* before test (same day and house, earlier time) is kept out of before by
\* the if/elif, also when an independent before test would list it: the two
\* evaluations differ.
C19_ElifDropsBefore ==
    (pm_pc = "done" /\ pm_impl = "regenerate") =>
        \A r \in DOMAIN pm_ids :
            (MeetsSameDay(r) /\ MeetsBefore(r)) =>
                /\ NeighbourIds[r] \notin SeqRange(OutIds("before"))
                /\ NeighbourIds[r] \in SeqRange(IndependentBefore) =>
                      OutIds("before") # IndependentBefore

\* C19 witness: such a neighbour, listed in same_day, missing from before
\* although before has room and the independent test would list it
C19_Witness ==
    /\ pm_pc = "done" /\ pm_impl = "regenerate"
    /\ \E r \in DOMAIN pm_ids :
          /\ MeetsSameDay(r) /\ MeetsBefore(r)
          /\ NeighbourIds[r] \in SeqRange(OutIds("same_day"))
          /\ NeighbourIds[r] \in SeqRange(IndependentBefore)
          /\ ~Populated("before", NSlots)


\* C20: every same_day entry is a neighbour whose auction house is known, of a
\* subject whose auction house is known.
C20_SameDayNeedsKnownHouses ==
    pm_pc = "done" =>
        \A i \in Slots : Populated("same_day", i) =>
            /\ Subject.auction_house # "None"
            /\ \E r \in DOMAIN pm_ids :
                  /\ NeighbourIds[r] = OutId("same_day", i)
                  /\ HasDoc(r) /\ NeighbourDoc(r).auction_house # "None"


\* C21: for a subject whose sale date is missing or unparseable, the 30 fields
\* of same_day and before are null and overall holds the first min(5, n)
\* neighbours.
C21_NoSubjectDate ==
    (pm_pc = "done" /\ ~Falsy(Subject.file) /\ Subject.iso_date.kind \in {"none", "bad"}) =>
        /\ \A f \in update_fields : f[1] \in {"same_day", "before"} => pm_out.m[f] = NoneOf(f[3])
        /\ OutIds("overall") = Prefix(NeighbourIds, NSlots)


\* ========================================= regenerate_matches, the scripts
\* the collections a run starts from
Batches ==
    { <<Catalog[1], Catalog[2], Catalog[4]>>,
      <<Catalog[5], Catalog[14], Catalog[8]>>,
      <<Catalog[8], Catalog[12], Catalog[13]>> }

\* ids the index answers a run's queries with
RunIds == {<<"a">>, <<"c">>}

\* the same for the runs of cron_regenerate_matches.py
RunIds_rm == {<<"t">>, <<"u">>}

\* what index.query can do for one query
\* (an answer names an id once)
RunAnswers ==
    {IndexError}
    \cup {IndexAnswer(l) : l \in {q \in SeqsUpTo(RunIds, MaxRunMatches) :
                                    \A i, j \in DOMAIN q : q[i] = q[j] => i = j}}

NoReport == [kind |-> "none", matched |-> 0, modified |-> 0, errors |-> {}]

PMIdle ==
    /\ pm_pc = "off" /\ pm_impl = "none" /\ pm_subject = 0 /\ pm_ids = <<>> /\ pm_out = <<>>

RunStart ==
    /\ \E b \in Batches : store = b
    /\ store0 = store
    /\ hist = NoHist
    /\ events = <<>>
    /\ qp = NoCall
    /\ documents = <<>> /\ hashmaps = NoMaps
    /\ idx = 0 /\ matches = <<>> /\ updated_docs = <<>> /\ operations = <<>>
    /\ report = NoReport /\ applied = {} /\ rejected = {} /\ emptied = {}

Init == PMIdle /\ RunStart /\ pc = "start"

\* ---------------------------------------------------------- update_mongodb
\* the operations list: one UpdateOne per document that holds any of the 45
\* fields, setting the fields it holds
RECURSIVE BuildOperations(_, _)
BuildOperations(dlist, i) ==
    IF i > Len(dlist) THEN <<>>
    ELSE LET doc == dlist[i]
             set == [f \in (update_fields \cap DOMAIN doc.m) |-> doc.m[f]]
         IN  (IF DOMAIN set # {} THEN <<[id |-> doc._id, set |-> set]>> ELSE <<>>)
             \o BuildOperations(dlist, i + 1)

OpIds(ops) == {ops[i].id : i \in DOMAIN ops}

\* mutant of SetFields: the update document replaces the stored one
SetFields_replace(doc, set) == Doc(doc._id, NoneId, "None", NoneDate, "None", set)

\* mutant of SetFields: scores are updated with $inc
SetFields_inc(doc, set) ==
    [doc EXCEPT !.m = [f \in DOMAIN set |->
                          IF f[3] = "score" /\ f \in DOMAIN doc.m /\ doc.m[f] # NoneScore /\ set[f] # NoneScore
                          THEN doc.m[f] + set[f] ELSE set[f]] @@ doc.m]

\* {"$set": set} on a stored document
SetFields(doc, set) == [doc EXCEPT !.m = set @@ doc.m]

\* the collection after the store applied the operations whose _id is in ok
RECURSIVE ApplyOps(_, _, _, _)
ApplyOps(st, ops, i, ok) ==
    IF i > Len(ops) THEN st
    ELSE ApplyOps([k \in DOMAIN st |->
                      IF st[k]._id = ops[i].id /\ ops[i].id \in ok
                      THEN SetFields(st[k], ops[i].set) ELSE st[k]],
                  ops, i + 1, ok)

\* operations that find their document / that change it
MatchedOps(st, ops, ok) ==
    {i \in DOMAIN ops : ops[i].id \in ok /\ \E k \in DOMAIN st : st[k]._id = ops[i].id}
ModifiedOps(st, ops, ok) ==
    {i \in MatchedOps(st, ops, ok) :
        \E k \in DOMAIN st : st[k]._id = ops[i].id /\ SetFields(st[k], ops[i].set) # st[k]}

\* logging.info("MongoDB update summary: Matched=.., Modified=.., Errors=..")
SummaryReport(st, ops) ==
    [kind |-> "summary", matched |-> Cardinality(MatchedOps(st, ops, OpIds(ops))),
     modified |-> Cardinality(ModifiedOps(st, ops, OpIds(ops))), errors |-> {}]

\* mutant of BulkErrorReport: str(bwe) is logged, without the details
BulkErrorReport_msg(st, ops, bad) ==
    [kind |-> "bulk_write_error", matched |-> 0, modified |-> 0, errors |-> {}]

\* logging.error(f"Bulk write error: {str(bwe.details)}"): details holds
\* nMatched, nModified and writeErrors, each error with the operation it is about
BulkErrorReport(st, ops, bad) ==
    [kind |-> "bulk_write_error",
     matched |-> Cardinality(MatchedOps(st, ops, OpIds(ops) \ bad)),
     modified |-> Cardinality(ModifiedOps(st, ops, OpIds(ops) \ bad)),
     errors |-> bad]

\* logging.error(f"Update error: {str(e)}")
ErrorReport == [kind |-> "error", matched |-> 0, modified |-> 0, errors |-> {}]

\* ------------------------------------ regenerate_matches, cron_regenerate.py
\* mutant of Connect: the match fields of the collection are reset before the
\* connections are made
Connect_reset ==
    /\ pc = "start"
    /\ store' = [k \in DOMAIN store |-> ClearFields(store[k])]
    /\ \E up \in BOOLEAN :
          IF ~up THEN pc' = "failed" /\ UNCHANGED documents
          ELSE /\ documents' = fetch_documents(store')
               /\ pc' = IF documents' = <<>> THEN "done" ELSE "fetched"
    /\ UNCHANGED <<pm_vars, qp, events, store0, hist, hashmaps, idx, matches, updated_docs, operations,
                   report, applied, rejected, emptied>>

\* validate_environment, initialize_pinecone, connect_mongodb, fetch_documents:
\* any of them raising is re-raised by the handler
Connect ==
    /\ pc = "start"
    /\ \E up \in BOOLEAN :
          IF ~up THEN pc' = "failed" /\ UNCHANGED documents
          ELSE /\ documents' = fetch_documents(store)
               /\ pc' = IF documents' = <<>> THEN "done" ELSE "fetched"
    /\ UNCHANGED <<pm_vars, qp, events, store0, hist, store, hashmaps, idx, matches, updated_docs, operations,
                   report, applied, rejected, emptied>>

BuildHashmaps ==
    /\ pc = "fetched"
    /\ hashmaps' = build_hashmaps(documents)
    /\ updated_docs' = <<>>
    /\ idx' = 1
    /\ pc' = "loop"
    /\ events' = Append(events, Event("build", 0))
    /\ UNCHANGED <<pm_vars, qp, store0, hist, store, documents, matches, operations, report, applied,
                   rejected, emptied>>

\* `if not image_id: updated_docs.append(doc); continue`
SkipDocument ==
    /\ pc = "loop" /\ idx <= Len(documents)
    /\ Falsy(documents[idx].file)
    /\ updated_docs' = Append(updated_docs, documents[idx])
    /\ idx' = idx + 1
    /\ UNCHANGED <<pm_vars, qp, events, store0, hist, pc, store, documents, hashmaps, matches, operations, report,
                   applied, rejected, emptied>>

\* the index is the same in a second run: it answers a query as it did before
AnswersFor(id) == IF id \in DOMAIN hist.answers THEN {hist.answers[id]} ELSE RunAnswers

\* the store is the same in a second run: the write meets what it met before
WriteOutcomes(ops) ==
    IF hist.run = 1
    THEN {[outcome |-> o, bad |-> b] : o \in {"ok", "bulk_write_error", "error"}, b \in SUBSET OpIds(ops)}
    ELSE {hist.write}

\* `matches = query_pinecone(pinecone_index, image_id)`
QueryPinecone ==
    /\ pc = "loop" /\ idx <= Len(documents)
    /\ ~Falsy(documents[idx].file)
    /\ \E answer \in AnswersFor(documents[idx]._id) :
          /\ matches' = query_pinecone(documents[idx].file, answer)
          /\ hist' = [hist EXCEPT !.answers = Put(@, documents[idx]._id, answer)]
    /\ emptied' = IF matches' = <<>> THEN emptied \cup {documents[idx]._id} ELSE emptied
    /\ pc' = "queried"
    /\ events' = Append(events, Event("query", documents[idx]._id))
    /\ UNCHANGED <<pm_vars, qp, store0, store, documents, hashmaps, idx, updated_docs, operations,
                   report, applied, rejected>>

\* mutant of CarryForward: `if not matches: continue`
CarryForward_drop ==
    /\ pc = "queried" /\ matches = <<>>
    /\ idx' = idx + 1
    /\ pc' = "loop"
    /\ UNCHANGED <<pm_vars, qp, events, store0, hist, store, documents, hashmaps, matches, operations, report,
                   applied, rejected, emptied, updated_docs>>

\* `if not matches: updated_docs.append(doc); continue`
CarryForward ==
    /\ pc = "queried" /\ matches = <<>>
    /\ updated_docs' = Append(updated_docs, documents[idx])
    /\ idx' = idx + 1
    /\ pc' = "loop"
    /\ UNCHANGED <<pm_vars, qp, events, store0, hist, store, documents, hashmaps, matches, operations, report,
                   applied, rejected, emptied>>

\* mutant of MapsAfterCategorize: process_matches notes in the price map that
\* the subject has been categorized
MapsAfterCategorize_mark(maps, doc) ==
    [maps EXCEPT !.bid = Put(@, Strip(Replace(doc.file)), "seen")]

\* mutant of MapsAfterCategorize: process_matches drops the subject's date
\* from the date map once it has used it
MapsAfterCategorize_pop(maps, doc) ==
    [maps EXCEPT !.date = [k \in DOMAIN @ \ {Strip(Replace(doc.file))} |-> @[k]]]

\* the three dicts after process_matches(doc, matches, *hashmaps): the function
\* only calls .get on them
MapsAfterCategorize(maps, doc) == maps

\* `processed_doc = process_matches(doc, matches, *hashmaps)`: the document
\* object is changed in place, so the entry of documents changes with it
ProcessDocument ==
    /\ pc = "queried" /\ matches # <<>>
    /\ LET processed_doc == process_matches(documents[idx], matches, hashmaps)
       IN  /\ documents' = [documents EXCEPT ![idx] = processed_doc]
           /\ updated_docs' = Append(updated_docs, processed_doc)
    /\ matches' = <<>>
    /\ idx' = idx + 1
    /\ pc' = "loop"
    /\ hashmaps' = MapsAfterCategorize(hashmaps, documents[idx])
    /\ events' = Append(events, Event("categorize", documents[idx]._id))
    /\ UNCHANGED <<pm_vars, qp, store0, hist, store, operations, report, applied, rejected, emptied>>

\* mutant of UpdateMongodb: the writer is called inside the loop over documents
UpdateMongodb_early ==
    /\ pc = "loop"
    /\ operations' = BuildOperations(updated_docs, 1)
    /\ IF operations' = <<>>
       THEN UNCHANGED <<store, report, applied, rejected, hist>>
       ELSE \E w \in WriteOutcomes(operations') :
              LET outcome == w.outcome
                  bad == w.bad
              IN /\ outcome = "bulk_write_error" => bad # {}
                 /\ outcome = "ok" => bad = {}
                 /\ outcome = "error" => bad = OpIds(operations')
                 /\ hist' = IF hist.run = 1 THEN [hist EXCEPT !.write = w] ELSE hist
                 /\ rejected' = IF outcome = "bulk_write_error" THEN bad ELSE {}
                 /\ applied' = OpIds(operations') \ bad
                 /\ store' = ApplyOps(store, operations', 1, applied')
                 /\ report' = IF outcome = "ok" THEN SummaryReport(store, operations')
                              ELSE IF outcome = "bulk_write_error"
                                   THEN BulkErrorReport(store, operations', bad)
                                   ELSE ErrorReport
    /\ pc' = "done"
    /\ events' = Append(events, Event("write", 0))
    /\ UNCHANGED <<pm_vars, qp, store0, documents, hashmaps, idx, matches, updated_docs, emptied>>

\* update_mongodb(collection, updated_docs) and the return of the run
UpdateMongodb ==
    /\ pc = "loop" /\ idx > Len(documents)
    /\ operations' = BuildOperations(updated_docs, 1)
    /\ IF operations' = <<>>
       THEN UNCHANGED <<store, report, applied, rejected, hist>>
       ELSE \E w \in WriteOutcomes(operations') :
              LET outcome == w.outcome
                  bad == w.bad
              IN /\ outcome = "bulk_write_error" => bad # {}
                 /\ outcome = "ok" => bad = {}
                 /\ outcome = "error" => bad = OpIds(operations')
                 /\ hist' = IF hist.run = 1 THEN [hist EXCEPT !.write = w] ELSE hist
                 /\ rejected' = IF outcome = "bulk_write_error" THEN bad ELSE {}
                 /\ applied' = OpIds(operations') \ bad
                 /\ store' = ApplyOps(store, operations', 1, applied')
                 /\ report' = IF outcome = "ok" THEN SummaryReport(store, operations')
                              ELSE IF outcome = "bulk_write_error"
                                   THEN BulkErrorReport(store, operations', bad)
                                   ELSE ErrorReport
    /\ pc' = "done"
    /\ events' = Append(events, Event("write", 0))
    /\ UNCHANGED <<pm_vars, qp, store0, documents, hashmaps, idx, matches, updated_docs, emptied>>

\* `python cron_regenerate.py` once more, after a run that reached its end
Rerun ==
    /\ pc = "done" /\ idx > 0 /\ hist.run = 1
    /\ hist' = [hist EXCEPT !.run = 2, !.store1 = store]
    /\ pc' = "start"
    /\ documents' = <<>> /\ hashmaps' = NoMaps /\ idx' = 0 /\ matches' = <<>>
    /\ updated_docs' = <<>> /\ operations' = <<>> /\ report' = NoReport
    /\ applied' = {} /\ rejected' = {} /\ emptied' = {}
    /\ events' = <<>>
    /\ UNCHANGED <<pm_vars, qp, store0, store>>

Next ==
    \/ Connect \/ BuildHashmaps \/ SkipDocument \/ QueryPinecone
    \/ CarryForward \/ ProcessDocument \/ UpdateMongodb \/ Rerun

Spec == Init /\ [][Next]_vars

\* index.query(id=image_id, top_k=top_k, include_values=False) is called with
\* no timeout: when the index never answers, the call does not return
QueryHangs ==
    /\ pc = "loop" /\ idx <= Len(documents)
    /\ ~Falsy(documents[idx].file)
    /\ pc' = "waiting"
    /\ events' = Append(events, Event("query", documents[idx]._id))
    /\ UNCHANGED <<pm_vars, qp, store0, hist, store, documents, hashmaps, idx, matches, updated_docs,
                   operations, report, applied, rejected, emptied>>

\* one run, every step taken as soon as it can be
NextLive ==
    \/ Connect \/ BuildHashmaps \/ SkipDocument \/ QueryPinecone \/ QueryHangs
    \/ CarryForward \/ ProcessDocument \/ UpdateMongodb

\* the step of ProcessDocument, told by its control flow alone
Categorized ==
    pc = "queried" /\ matches # <<>> /\ pc' = "loop"

\* the interpreter runs whatever statement comes next
SpecLive ==
    /\ Init /\ [][NextLive]_vars
    /\ WF_vars(Connect \/ BuildHashmaps \/ SkipDocument \/ QueryPinecone \/ QueryHangs
                  \/ CarryForward \/ UpdateMongodb)
    /\ WF_pc(Categorized)


\* --------------------------- regenerate_matches, cron_regenerate_matches.py
\* an index answer whose first record carries its own 'matches' list
NestedAnswer(ids, nested) ==
    [ok |-> TRUE,
     matches |-> [r \in DOMAIN ids |->
                    [id |-> ids[r], score |-> RawScore(r),
                     matches |-> IF r = 1 THEN MkMatches(nested) ELSE <<>>]]]

\* a record of the answer as the index documents it: id and score, no 'matches'
PlainRecord(m) == [id |-> m.id, score |-> m.score, matches |-> <<>>]

RunAnswers_rm ==
    {IndexError}
    \cup {[ok |-> TRUE, matches |-> [r \in DOMAIN l |-> PlainRecord(MkMatches(l)[r])]] :
             l \in SeqsUpTo(RunIds_rm, MaxRunMatches)}
    \cup {NestedAnswer(<<UnknownId>>, l) : l \in SeqsUpTo(RunIds_rm, MaxRunMatches)}

\* None as the value query_pinecone returns: a list of one record that is no match
NoneMatches == <<[id |-> NoneId, score |-> NoneScore, matches |-> <<>>]>>

\* query_pinecone of cron_regenerate_matches.py: pd.isna(image_id) is True for
\* None (and NaN), False for a string; when it is True the function ends
\* without a return statement
query_pinecone_rm(image_id, answer) ==
    IF image_id = NoneId THEN NoneMatches
    ELSE IF ~answer.ok THEN <<>>
    ELSE IF answer.matches = <<>> THEN <<>>
    ELSE answer.matches[1].matches

\* update_fields of the write loop: all 45 fields, doc.get(field) each
UpdateFields_rm(doc) == [f \in update_fields |-> Get(doc.m, f, NoneOf(f[3]))]

\* the update_one calls issued for the first n documents of the list
BuildOperations_rm(dlist, n) ==
    [i \in 1..n |-> [id |-> dlist[i]._id, set |-> UpdateFields_rm(dlist[i])]]

Init_rm == PMIdle /\ RunStart /\ pc = "start_rm"

\* initialize_pinecone, connect_mongodb, fetch_documents: each failure is
\* logged and the function returns
Connect_rm ==
    /\ pc = "start_rm"
    /\ \E up \in BOOLEAN :
          IF ~up THEN pc' = "aborted" /\ UNCHANGED documents
          ELSE /\ documents' = fetch_documents_rm(store)
               /\ pc' = IF documents' = <<>> THEN "returned" ELSE "fetched_rm"
    /\ UNCHANGED <<pm_vars, qp, events, store0, hist, store, hashmaps, idx, matches, updated_docs, operations,
                   report, applied, rejected, emptied>>

BuildHashmaps_rm ==
    /\ pc = "fetched_rm"
    /\ hashmaps' = build_hashmaps_rm(documents)
    /\ updated_docs' = <<>>
    /\ idx' = 1
    /\ pc' = "loop_rm"
    /\ UNCHANGED <<pm_vars, qp, events, store0, hist, store, documents, matches, operations, report, applied,
                   rejected, emptied>>

SkipDocument_rm ==
    /\ pc = "loop_rm" /\ idx <= Len(documents)
    /\ Falsy(documents[idx].file)
    /\ updated_docs' = Append(updated_docs, documents[idx])
    /\ idx' = idx + 1
    /\ UNCHANGED <<pm_vars, qp, events, store0, hist, pc, store, documents, hashmaps, matches, operations, report,
                   applied, rejected, emptied>>

QueryPinecone_rm ==
    /\ pc = "loop_rm" /\ idx <= Len(documents)
    /\ ~Falsy(documents[idx].file)
    /\ \E answer \in RunAnswers_rm :
          matches' = query_pinecone_rm(documents[idx].file, answer)
    /\ emptied' = IF matches' = <<>> THEN emptied \cup {documents[idx]._id} ELSE emptied
    /\ pc' = "queried_rm"
    /\ UNCHANGED <<pm_vars, qp, events, store0, hist, store, documents, hashmaps, idx, updated_docs, operations,
                   report, applied, rejected>>

CarryForward_rm ==
    /\ pc = "queried_rm" /\ matches = <<>>
    /\ updated_docs' = Append(updated_docs, documents[idx])
    /\ idx' = idx + 1
    /\ pc' = "loop_rm"
    /\ UNCHANGED <<pm_vars, qp, events, store0, hist, store, documents, hashmaps, matches, operations, report,
                   applied, rejected, emptied>>

\* process_matches, append, then progress_bar.progress(...): progress_bar is
\* defined nowhere, so the NameError leaves regenerate_matches
ProcessDocument_rm ==
    /\ pc = "queried_rm" /\ matches # <<>>
    /\ LET updated_doc == process_matches_rm(documents[idx], matches, hashmaps)
       IN  /\ documents' = [documents EXCEPT ![idx] = updated_doc]
           /\ updated_docs' = Append(updated_docs, updated_doc)
    /\ matches' = <<>>
    /\ pc' = "crashed"
    /\ UNCHANGED <<pm_vars, qp, events, store0, hist, store, hashmaps, idx, operations, report, applied, rejected,
                   emptied>>

\* the write loop: update_one per document inside one try; the first call that
\* raises ends the loop and the function (failAt = 0: none raises)
UpdateDocuments_rm ==
    /\ pc = "loop_rm" /\ idx > Len(documents)
    /\ \E failAt \in 0..Len(updated_docs) :
          LET n == IF failAt = 0 THEN Len(updated_docs) ELSE failAt
              ops == BuildOperations_rm(updated_docs, n)
          IN  /\ operations' = ops
              /\ rejected' = IF failAt = 0 THEN {} ELSE {ops[failAt].id}
              /\ applied' = OpIds(ops) \ rejected'
              /\ store' = ApplyOps(store, ops, 1, applied')
              /\ report' = IF failAt = 0 THEN [NoReport EXCEPT !.kind = "all_updated"]
                           ELSE ErrorReport
    /\ pc' = "returned"
    /\ UNCHANGED <<pm_vars, qp, events, store0, hist, documents, hashmaps, idx, matches, updated_docs, emptied>>

Next_rm ==
    \/ Connect_rm \/ BuildHashmaps_rm \/ SkipDocument_rm \/ QueryPinecone_rm
    \/ CarryForward_rm \/ ProcessDocument_rm \/ UpdateDocuments_rm

SpecLegacy == Init_rm /\ [][Next_rm]_vars

\* ------------------------- the two process_matches on the same arguments
MaxEq == 2

\* a collection whose sale dates are all date-only: datetimes at midnight
\* (kind "dt"), or strings without a time (kind "str")
EqDate(kind, d) == IF kind = "dt" THEN Datetime(d, 0) ELSE DateStr(d, 0)

EqCatalog(kind) ==
    << Doc(1, <<"s">>,            "p1",   EqDate(kind, 2), "A",    NoM),
       Doc(2, <<"a">>,            "p2",   EqDate(kind, 2), "A",    NoM),
       Doc(3, <<"b">>,            "p3",   EqDate(kind, 1), "A",    NoM),
       Doc(4, <<"c">>,            "None", EqDate(kind, 2), "B",    NoM),
       Doc(5, <<"e">>,            "p5",   EqDate(kind, 3), "None", NoM),
       Doc(6, <<"k", "\\", "1">>, "p6",   EqDate(kind, 2), "A",    NoM) >>

EqIds == {EqCatalog("dt")[i].file : i \in DOMAIN EqCatalog("dt")}

\* neighbour lists: short ones over all ids, long ones over two ids
EqLists == SeqsUpTo(EqIds, MaxEq) \cup SeqsUpTo({<<"a">>, <<"b">>}, MaxLong)

\* the maps either script builds from such a collection: cron_regenerate.py
\* from datetimes, cron_regenerate_matches.py from strings
EqMaps ==
    { build_hashmaps(fetch_documents(EqCatalog("dt"))),
      build_hashmaps_rm(fetch_documents_rm(EqCatalog("str"))) }

EqInit ==
    /\ qp = NoCall
    /\ pc = "off" /\ store = <<>> /\ idx = 0 /\ matches = <<>> /\ updated_docs = <<>>
    /\ operations = <<>> /\ report = NoReport /\ applied = {} /\ rejected = {} /\ emptied = {}
    /\ store0 = <<>> /\ hist = NoHist /\ events = <<>>
    /\ documents = fetch_documents(EqCatalog("str"))
    /\ hashmaps \in EqMaps
    /\ pm_pc = "eq_input" /\ pm_impl = "none"
    /\ pm_subject \in DOMAIN documents
    /\ pm_ids \in EqLists
    /\ pm_out = documents[pm_subject]

\* cron_regenerate.py: process_matches(doc, matches, *hashmaps)
EqApply ==
    /\ pm_pc \in {"eq_input", "eq_one"} /\ pm_impl # "regenerate"
    /\ pm_pc' = IF pm_pc = "eq_input" THEN "eq_one" ELSE "eq_both"
    /\ pm_impl' = "regenerate"
    /\ pm_out' = process_matches(documents[pm_subject], MkMatches(pm_ids), hashmaps)
    /\ UNCHANGED <<pm_subject, pm_ids, run_vars>>

\* cron_regenerate_matches.py: process_matches(doc, matches, ...) with the
\* same document, neighbour list and maps
EqApply_rm ==
    /\ pm_pc \in {"eq_input", "eq_one"} /\ pm_impl # "regenerate_matches"
    /\ pm_pc' = IF pm_pc = "eq_input" THEN "eq_one" ELSE "eq_both"
    /\ pm_impl' = "regenerate_matches"
    /\ pm_out' = process_matches_rm(documents[pm_subject], MkMatches(pm_ids), hashmaps)
    /\ UNCHANGED <<pm_subject, pm_ids, run_vars>>

EqNext == EqApply \/ EqApply_rm

SpecEq == EqInit /\ [][EqNext]_vars

\* ------------------- the per-item steps of cron_regenerate.py in any order
\* The run after build_hashmaps, its (query, categorize) steps taken for the
\* documents in any order and interleaved; matches is here a dict from _id to
\* the neighbour list of a queried document.
SchedInit ==
    /\ PMIdle /\ qp = NoCall
    /\ \E b \in Batches : store = b
    /\ store0 = store
    /\ documents = fetch_documents(store)
    /\ hashmaps = build_hashmaps(documents)
    /\ pc = "sched" /\ idx = 0 /\ matches = <<>> /\ updated_docs = <<>>
    /\ operations = <<>> /\ report = NoReport /\ applied = {} /\ rejected = {}
    /\ emptied = {} /\ hist = NoHist
    /\ events = <<Event("build", 0)>>

\* what index.query does for one query here: it raises, or names two neighbours
SchedAnswers == {a \in RunAnswers : ~a.ok \/ Len(a.matches) = 2}

\* the document has been appended to updated_docs
Finished(i) == \E k \in DOMAIN updated_docs : updated_docs[k]._id = documents[i]._id

SchedSkip ==
    /\ pc = "sched"
    /\ \E i \in DOMAIN documents :
          /\ ~Finished(i) /\ Falsy(documents[i].file)
          /\ updated_docs' = Append(updated_docs, documents[i])
    /\ UNCHANGED <<pm_vars, qp, events, store0, hist, pc, store, documents, hashmaps, idx, matches,
                   operations, report, applied, rejected, emptied>>

SchedQuery ==
    /\ pc = "sched"
    /\ \E i \in DOMAIN documents :
          /\ ~Finished(i) /\ ~Falsy(documents[i].file)
          /\ documents[i]._id \notin DOMAIN matches
          /\ \E answer \in SchedAnswers :
                /\ matches' = Put(matches, documents[i]._id, query_pinecone(documents[i].file, answer))
                /\ hist' = [hist EXCEPT !.answers = Put(@, documents[i]._id, answer)]
          /\ events' = Append(events, Event("query", documents[i]._id))
    /\ UNCHANGED <<pm_vars, qp, store0, pc, store, documents, hashmaps, idx, updated_docs,
                   operations, report, applied, rejected, emptied>>

SchedCarryForward ==
    /\ pc = "sched"
    /\ \E i \in DOMAIN documents :
          /\ ~Finished(i) /\ documents[i]._id \in DOMAIN matches
          /\ matches[documents[i]._id] = <<>>
          /\ updated_docs' = Append(updated_docs, documents[i])
    /\ UNCHANGED <<pm_vars, qp, events, store0, hist, pc, store, documents, hashmaps, idx, matches,
                   operations, report, applied, rejected, emptied>>

SchedCategorize ==
    /\ pc = "sched"
    /\ \E i \in DOMAIN documents :
          /\ ~Finished(i) /\ documents[i]._id \in DOMAIN matches
          /\ matches[documents[i]._id] # <<>>
          /\ LET processed_doc == process_matches(documents[i], matches[documents[i]._id], hashmaps)
             IN  /\ documents' = [documents EXCEPT ![i] = processed_doc]
                 /\ updated_docs' = Append(updated_docs, processed_doc)
          /\ hashmaps' = MapsAfterCategorize(hashmaps, documents[i])
          /\ events' = Append(events, Event("categorize", documents[i]._id))
    /\ UNCHANGED <<pm_vars, qp, store0, hist, pc, store, idx, matches,
                   operations, report, applied, rejected, emptied>>

SchedNext == SchedSkip \/ SchedQuery \/ SchedCarryForward \/ SchedCategorize

SpecSched == SchedInit /\ [][SchedNext]_vars

\* ------------------------------------------ query_pinecone as a function
\* keys a caller can hold: None, '', the keys of the collection, an unknown one
QPKeys == {NoneId, <<>>} \cup AllIds

\* index.query raises for an empty id; any other query is answered or raises
QPAnswers(image_id) == IF image_id = <<>> THEN {IndexError} ELSE RunAnswers \cup RunAnswers_rm

QPInit ==
    /\ PMIdle /\ RunOff
    /\ \E k \in QPKeys : \E a \in QPAnswers(k) :
          qp = [pc |-> "input", impl |-> "none", image_id |-> k, answer |-> a, out |-> <<>>]

\* cron_regenerate.py: query_pinecone(index, image_id)
QPApply ==
    /\ qp.pc = "input" /\ qp.answer \in RunAnswers
    /\ qp' = [qp EXCEPT !.pc = "done", !.impl = "regenerate",
                        !.out = query_pinecone(qp.image_id, qp.answer)]
    /\ UNCHANGED <<pm_vars, pc, store, documents, hashmaps, idx, matches, updated_docs,
                   operations, report, applied, rejected, emptied, store0, hist, events>>

\* cron_regenerate_matches.py: query_pinecone(index, image_id, top_k=30)
QPApply_rm ==
    /\ qp.pc = "input" /\ qp.answer \in RunAnswers_rm
    /\ qp' = [qp EXCEPT !.pc = "done", !.impl = "regenerate_matches",
                        !.out = query_pinecone_rm(qp.image_id, qp.answer)]
    /\ UNCHANGED <<pm_vars, pc, store, documents, hashmaps, idx, matches, updated_docs,
                   operations, report, applied, rejected, emptied, store0, hist, events>>

QPNext == QPApply \/ QPApply_rm

SpecQP == QPInit /\ [][QPNext]_vars

\* --------------------------------------------------- a run of either script
InitAll == Init \/ Init_rm

NextAll == Next \/ Next_rm

SpecAll == InitAll /\ [][NextAll]_vars


\* ============================================ properties, Spec / SpecLegacy
\* update_mongodb was called and has returned
WriterReturned == pc = "done" /\ idx > 0

AllNone == [f \in update_fields |-> NoneOf(f[3])]
StoredDoc(id) == store[CHOOSE k \in DOMAIN store : store[k]._id = id]
\* the operations built for the document with this _id
OpsFor(id) == {j \in DOMAIN operations : operations[j].id = id}
\* the store holds what the operation sets
Holds(op) == \A f \in DOMAIN op.set : f \in DOMAIN StoredDoc(op.id).m /\ StoredDoc(op.id).m[f] = op.set[f]

\* C2: after a run whose write succeeded, every document whose neighbour query
\* came back empty (or failed) has all 45 stored match fields null.
C2_EmptyQueryClearsStored ==
    (WriterReturned /\ report.kind \in {"none", "summary"}) =>
        \A id \in emptied : StoredDoc(id).m = AllNone

\* C8: for every document handed to the writer exactly one operation is built,
\* and it sets all 45 fields, to the document's values or to null.
C8_OneFullOperationPerDocument ==
    WriterReturned =>
        \A i \in DOMAIN updated_docs :
            /\ Cardinality(OpsFor(updated_docs[i]._id)) = 1
            /\ \A j \in OpsFor(updated_docs[i]._id) :
                  operations[j].set = [f \in update_fields |-> Get(updated_docs[i].m, f, NoneOf(f[3]))]

\* C9: when the store rejects one update of a batch, every other update of the
\* documents handed to the writer is applied.
C9_OthersStillApplied ==
    (pc \in {"done", "returned"} /\ rejected # {}) =>
        \A i \in DOMAIN updated_docs :
            updated_docs[i]._id \notin rejected =>
                /\ updated_docs[i]._id \in applied
                /\ StoredDoc(updated_docs[i]._id).m = UpdateFields_rm(updated_docs[i])

\* companion of C9 for cron_regenerate.py (holds under Spec): with
\* bulk_write(ordered=False) every operation the store did not reject is applied
BulkWrite_OthersApplied ==
    (pc = "done" /\ rejected # {}) =>
        \A j \in DOMAIN operations :
            operations[j].id \notin rejected => (operations[j].id \in applied /\ Holds(operations[j]))

\* C10: after a bulk write in which the store rejected k of the N operations,
\* the report gives N-k as matched, names exactly the rejected _ids, and both
\* agree with what the store holds.
C10_ReportCountsAndNames ==
    (WriterReturned /\ report.kind \in {"summary", "bulk_write_error"}) =>
        LET held == {j \in DOMAIN operations : Holds(operations[j])}
        IN  /\ report.matched = Cardinality(held)
            /\ report.matched = Len(operations) - Cardinality(rejected)
            /\ report.errors = rejected
            /\ report.errors = {operations[j].id : j \in DOMAIN operations \ held}

\* C10 witness: three operations, one of them rejected
C10_Witness ==
    /\ WriterReturned
    /\ report.kind = "bulk_write_error"
    /\ Len(operations) = 3
    /\ Cardinality(rejected) = 1
    /\ report.matched = 2

\* C11: a run leaves the collection with the records it found, in every field
\* but the 45 match fields; every operation is a $set of match fields on the
\* _id of a fetched document.
C11_OnlyMatchFieldsChange ==
    /\ Len(store) = Len(store0)
    /\ \A k \in DOMAIN store : [store[k] EXCEPT !.m = store0[k].m] = store0[k]
    /\ \A j \in DOMAIN operations :
          /\ \E i \in DOMAIN documents : documents[i]._id = operations[j].id
          /\ DOMAIN operations[j].set \subseteq update_fields

\* C11 witness: the run has written and the collection differs from the one found
C11_Witness ==
    /\ pc \in {"done", "returned"}
    /\ applied # {}
    /\ store # store0
\* C13: with the index and the item attributes unchanged, a second run leaves
\* the collection as the first run left it.
C13_SecondRunSameStore ==
    (hist.run = 2 /\ pc \in {"done", "failed"}) => store = hist.store1

\* C13 witness: a second run has written, after a first run that changed the
\* collection
C13_Witness ==
    /\ hist.run = 2 /\ pc = "done" /\ idx > 0
    /\ applied # {}
    /\ store # store0
\* C14: a step of the per-item loop (key check, query, categorization) never
\* ends the run, and when it finishes an item that item is appended to the
\* list for the writer.
C14_PerItemNeverFails ==
    [][(pc \in {"loop", "queried", "loop_rm", "queried_rm"}) =>
          ((pc' \notin {"failed", "crashed"})
           /\ ((idx' = idx + 1) =>
                  (Len(updated_docs') = Len(updated_docs) + 1
                   /\ documents[idx]._id = updated_docs'[Len(updated_docs')]._id)))]_vars
\* the collection as the current run found it
StoreAtStart == IF hist.run = 1 THEN store0 ELSE hist.store1

\* C15: a run that failed at start-up (configuration, connection to the index,
\* connection to the store, fetch) has built and issued no write, and the
\* collection is as the run found it.
C15_StartupFailureWritesNothing ==
    pc \in {"failed", "aborted"} =>
        /\ operations = <<>> /\ applied = {} /\ rejected = {}
        /\ store = StoreAtStart

\* C15 witness: cron_regenerate.py failed at start-up over a collection that
\* holds match fields
C15_Witness ==
    /\ pc = "failed"
    /\ \E k \in DOMAIN store : store[k].m # NoM
\* C16: a write that could not reach the store at all (the bulk write raised
\* something other than BulkWriteError) leaves the run failed, not done.
C16_UnreachableStoreFails ==
    report.kind = "error" => pc = "failed"
\* C17: query_pinecone returns a list of matches in every case, and the empty
\* list when the key is missing or empty, when the index knows no neighbour
\* for it, and when the index call raises.
C17_EmptyListOnMissingOrFailed ==
    qp.pc = "done" =>
        /\ qp.out # NoneMatches
        /\ (Falsy(qp.image_id) \/ ~qp.answer.ok \/ qp.answer.matches = <<>>) => qp.out = <<>>
\* C22: once build_hashmaps has returned, a key is in all three maps or in
\* none of them.
C22_MapsAgreeOnKeys ==
    /\ DOMAIN hashmaps.bid = DOMAIN hashmaps.date
    /\ DOMAIN hashmaps.date = DOMAIN hashmaps.house
\* the positions of a stage in the run's sequence of stages
Positions(stage) == {p \in DOMAIN events : events[p].stage = stage}

\* C23: the maps are built once and before anything else; a document is
\* queried at most once and categorized only right after its own query; the
\* writer is invoked at most once, last, with every document processed.
C23_StageOrder ==
    /\ Cardinality(Positions("build")) <= 1
    /\ events # <<>> => events[1].stage = "build"
    /\ \A p, q \in Positions("query") : events[p].id = events[q].id => p = q
    /\ \A p \in Positions("categorize") : p > 1 /\ events[p - 1] = Event("query", events[p].id)
    /\ Cardinality(Positions("write")) <= 1
    /\ \A p \in Positions("write") :
          /\ p = Len(events)
          /\ idx > Len(documents)
          /\ \A i \in DOMAIN documents :
                ~Falsy(documents[i].file) => \E q \in Positions("query") : events[q].id = documents[i]._id

\* C23 witness: a run that reached the write stage after three queries, two
\* of them followed by a categorization
C23_Witness ==
    /\ pc = "done"
    /\ Cardinality(Positions("query")) = 3
    /\ Cardinality(Positions("categorize")) = 2
    /\ Cardinality(Positions("write")) = 1
\* what process_matches gives for the fetched document i when it is the only
\* one processed: the document as fetched, its own neighbour list, the maps
\* as build_hashmaps returned them
AloneResult(i) ==
    LET fetched == fetch_documents(store)
    IN  process_matches(fetched[i],
                        query_pinecone(fetched[i].file, hist.answers[fetched[i]._id]),
                        build_hashmaps(fetched))

\* C24: whatever the order and interleaving of the per-item steps, the 45
\* fields computed for a document are those computed for it alone.
C24_ResultsIndependentOfSchedule ==
    \A i \in DOMAIN documents :
        (\E p \in Positions("categorize") : events[p].id = documents[i]._id) =>
            /\ documents[i].m = AloneResult(i).m
            /\ \A k \in DOMAIN updated_docs :
                  updated_docs[k]._id = documents[i]._id => updated_docs[k].m = AloneResult(i).m

\* C24 witness: the last document was categorized before the first, its query
\* made before and its categorization after the query of the first
C24_Witness ==
    /\ pc = "sched" /\ Len(documents) = 3
    /\ Len(events) = 5
    /\ events[2] = Event("query", documents[3]._id)
    /\ events[3] = Event("query", documents[1]._id)
    /\ events[4] = Event("categorize", documents[3]._id)
    /\ events[5] = Event("categorize", documents[1]._id)
\* C25: every run reaches a terminal state, done or failed, also when a
\* neighbour query gets no answer.
C25_RunTerminates ==
    <>(pc \in {"done", "failed"})

\* the three maps as build_hashmaps returned them in the current run
BuiltMaps == build_hashmaps(fetch_documents(StoreAtStart))

\* C26: from the moment the maps are built to the write stage they are the
\* maps build_hashmaps returned, whatever process_matches did to the documents.
C26_MapsReadOnly ==
    Positions("build") # {} => hashmaps = BuiltMaps

C26_Witness ==
    /\ pc = "done" /\ Positions("write") # {}
    /\ Positions("categorize") # {}
    /\ documents # fetch_documents(StoreAtStart)
    /\ hashmaps = BuiltMaps /\ hashmaps # NoMaps

\* the price map process_matches was given
PriceMap == IF pm_impl = "regenerate" THEN CatalogMaps.bid ELSE CatalogMaps_rm.bid

OutSlot(c, i) == [fld \in SeqRange(Fields) |-> pm_out.m[<<c, i, fld>>]]
EmptySlot == [fld \in SeqRange(Fields) |-> NoneOf(fld)]

\* C27: every slot of a result is empty (id, price and score null) or holds
\* the id of one neighbour with the price map's value for that id and the score
\* derived from that neighbour's raw score.
C27_SlotsCoherent ==
    pm_pc \in {"done", "again"} =>
        \A c \in SeqRange(Categories), i \in Slots :
            \/ OutSlot(c, i) = EmptySlot
            \/ /\ OutSlot(c, i).id # NoneId
               /\ OutSlot(c, i).price = Get(PriceMap, OutSlot(c, i).id, "None")
               /\ \E r \in DOMAIN pm_ids :
                     /\ NeighbourIds[r] = OutSlot(c, i).id
                     /\ OutSlot(c, i).score = Round2(RawScore(r))

\* C27 witness: a subject that held values of an earlier run, two neighbours
\* with different prices in one category, and empty slots after the entries
C27_Witness ==
    /\ pm_pc = "done" /\ Subject.m = StaleM
    /\ Populated("overall", 2) /\ OutSlot("overall", 3) = EmptySlot
    /\ OutSlot("overall", 1).price # OutSlot("overall", 2).price
    /\ OutSlot("overall", 1).score # OutSlot("overall", 2).score
    /\ Populated("before", 1) /\ OutSlot("before", 2) = EmptySlot

\* no id occurs twice in the neighbour list
DistinctIds == \A r1, r2 \in DOMAIN pm_ids : pm_ids[r1] = pm_ids[r2] => r1 = r2

\* C28: for a neighbour list of pairwise distinct ids, no id is in both
\* same_day and before of the result.
C28_SameDayBeforeDisjoint ==
    (pm_pc = "done" /\ DistinctIds) =>
        SeqRange(OutIds("same_day")) \cap SeqRange(OutIds("before")) = {}

\* C28 witness: distinct neighbours, some in same_day and some in before
C28_Witness ==
    /\ pm_pc = "done" /\ DistinctIds /\ Len(pm_ids) >= 2
    /\ Populated("same_day", 1) /\ Populated("before", 1)

\* the _id values of a list of documents, in order
IdsOf(dlist) == [k \in DOMAIN dlist |-> dlist[k]._id]

\* the write stage has been entered: update_mongodb was called, or the write
\* loop of cron_regenerate_matches.py has run
WriterInvoked == WriterReturned \/ pc = "returned"

\* C29: the list given to the writer names every fetched document once, in
\* fetch order.
C29_WriterGetsEveryDocument ==
    WriterInvoked => IdsOf(updated_docs) = IdsOf(documents)

\* C29 witness: a batch with a document skipped for its empty key, one whose
\* query gave nothing and one that was categorized, handed to the writer
C29_Witness ==
    /\ WriterInvoked /\ Positions("write") # {}
    /\ \E i, j, k \in DOMAIN documents :
          /\ Falsy(documents[i].file)
          /\ ~Falsy(documents[j].file)
          /\ \A p \in Positions("categorize") : events[p].id # documents[j]._id
          /\ \E p \in Positions("categorize") : events[p].id = documents[k]._id

\* the maps hold a date for the subject and for every neighbour of the list
EqDatesPresent ==
    /\ documents # <<>> /\ pm_subject \in DOMAIN documents
    /\ \/ documents[pm_subject].file \in DOMAIN hashmaps.date
       \/ Strip(Replace(documents[pm_subject].file)) \in DOMAIN hashmaps.date
    /\ \A r \in DOMAIN pm_ids : Replace(pm_ids[r]) \in DOMAIN hashmaps.date
    /\ \A k \in DOMAIN hashmaps.date : hashmaps.date[k].kind = "str" /\ hashmaps.date[k].tod = 0

\* C30: given maps that hold a parseable date without time of day for the
\* subject and for every neighbour, the second implementation applied to the
\* same arguments gives the 45 fields the first one gave.
C30_ImplementationsAgree ==
    [][((pm_pc = "eq_one") /\ EqDatesPresent) => (pm_out.m = pm_out'.m)]_vars

====
